---- MODULE Spec2Model ----
(***************************************************************************)
(* Integer-location lookup on insertion-ordered dicts                      *)
(* (dicts_and_dataframes.py: keys_iloc / values_iloc / items_iloc,         *)
(* IlocIndexer, Dict) and the markdown cleanup of cleanupmd.py.            *)
(***************************************************************************)
EXTENDS Integers, Sequences, FiniteSets, TLC

\* ------------------------------------------------------------------ bounds
\* largest number of entries of a mapping; selector integers range over
\* -(MaxLen+1) .. MaxLen+1, so that both out-of-range sides occur
MaxLen == 3
\* largest number of pieces an input text of cleanupmd is built from
MaxPieces == 6

\* ------------------------------------------------------- Python values
KeyNames == <<"a", "b", "c", "d", "e", "f">>

Keys == {KeyNames[i] : i \in 1..MaxLen}

\* str.upper() on the one-letter keys: odict = {x: x.upper() for x in 'abcd'}
upper(x) ==
    CASE x = "a" -> "A" [] x = "b" -> "B" [] x = "c" -> "C"
      [] x = "d" -> "D" [] x = "e" -> "E" [] OTHER -> "F"

\* the program variables that hold Dict instances
Names == {"d", "e"}

\* a Python scalar argument: an int, None, or a value that is neither
PyInt(n) == [t |-> "int", n |-> n]

None == [t |-> "None", n |-> 0]

PyStr == [t |-> "str", n |-> 0]

PyFloat == [t |-> "float", n |-> 0]

PyTuple == [t |-> "tuple", n |-> 0]

\* slice(start, stop, step)
slice(start, stop, step) ==
    [t |-> "slice", start |-> start, stop |-> stop, step |-> step]

\* a mapping is the sequence of its (key, value) pairs in insertion order
keys(m) == [i \in 1..Len(m) |-> m[i][1]]

values(m) == [i \in 1..Len(m) |-> m[i][2]]

items(m) == m

\* the dict view a bound method self.keys / self.values / self.items returns
View(m, view) ==
    CASE view = "keys" -> keys(m)
      [] view = "values" -> values(m)
      [] OTHER -> items(m)

Views == {"keys", "values", "items"}

\* ------------------------------------------------------ itertools.islice
Ok(s) == [kind |-> "ok", seq |-> s]

Raise(e) == [kind |-> e, seq |-> <<>>]

\* islice(iterable, start, stop, step), fully consumed.  start, stop and
\* step must each be None or an integer 0 <= x (step >= 1); anything else
\* is a ValueError raised by the call itself.
\* islice with a step of 0 taken for "no step" (step or 1)
islice_step_or_1(iterable, start, stop, step) ==
    LET badStart == ~(start.t = "None" \/ (start.t = "int" /\ start.n >= 0))
        badStop == ~(stop.t = "None" \/ (stop.t = "int" /\ stop.n >= 0))
        badStep == ~(step.t = "None" \/ (step.t = "int" /\ step.n >= 0))
        n == Len(iterable)
        lo == IF start.t = "None" THEN 0 ELSE start.n
        hi == IF stop.t = "None" THEN n ELSE IF stop.n < n THEN stop.n ELSE n
        st == IF step.t = "None" \/ step.n = 0 THEN 1 ELSE step.n
        cnt == IF lo >= hi THEN 0 ELSE ((hi - lo - 1) \div st) + 1
    IN  IF badStart \/ badStop \/ badStep
        THEN Raise("ValueError")
        ELSE Ok([j \in 1..cnt |-> iterable[lo + (j - 1) * st + 1]])

islice(iterable, start, stop, step) ==
    LET badStart == ~(start.t = "None" \/ (start.t = "int" /\ start.n >= 0))
        badStop == ~(stop.t = "None" \/ (stop.t = "int" /\ stop.n >= 0))
        badStep == ~(step.t = "None" \/ (step.t = "int" /\ step.n >= 1))
        n == Len(iterable)
        lo == IF start.t = "None" THEN 0 ELSE start.n
        hi == IF stop.t = "None" THEN n ELSE IF stop.n < n THEN stop.n ELSE n
        st == IF step.t = "None" THEN 1 ELSE step.n
        cnt == IF lo >= hi THEN 0 ELSE ((hi - lo - 1) \div st) + 1
    IN  IF badStart \/ badStop \/ badStep
        THEN Raise("ValueError")
        ELSE Ok([j \in 1..cnt |-> iterable[lo + (j - 1) * st + 1]])

\* next(iterator): the first element, or StopIteration
next(res) ==
    IF res.kind # "ok" THEN res
    ELSE IF res.seq = <<>> THEN Raise("StopIteration")
    ELSE Ok(<<res.seq[1]>>)

\* ------------------------------------------- keys_iloc and its siblings
\* _dict_view_islice with a lone first argument taken as the stop, as in
\* slice(start) and islice(iterable, n)
_dict_view_islice_stop(iterable, start, stop, step) ==
    LET _slice == IF start.t = "slice" THEN start
                  ELSE IF stop = None /\ step = None THEN slice(None, start, None)
                  ELSE slice(start, stop, step)
    IN  islice(iterable, _slice.start, _slice.stop, _slice.step)

_dict_view_islice(iterable, start, stop, step) ==
    LET _slice == IF start.t = "slice" THEN start ELSE slice(start, stop, step)
    IN  islice(iterable, _slice.start, _slice.stop, _slice.step)

keys_iloc(self, start, stop, step) ==
    _dict_view_islice(keys(self), start, stop, step)

values_iloc(self, start, stop, step) ==
    _dict_view_islice(values(self), start, stop, step)

items_iloc(self, start, stop, step) ==
    _dict_view_islice(items(self), start, stop, step)

\* --------------------------------------------------------- IlocIndexer
\* IlocIndexer.__getitem__(self, obj), with self.obj() already called
\* IlocIndexer.__getitem__ without the branch for an integer
IlocIndexer_getitem_noint(iterable, obj) ==
    LET _slice == IF obj.t = "slice" THEN obj ELSE slice(None, obj, None)
    IN  islice(iterable, _slice.start, _slice.stop, _slice.step)

IlocIndexer_getitem(iterable, obj) ==
    LET _slice == IF obj.t = "int" THEN slice(obj, PyInt(obj.n + 1), None)
                  ELSE IF obj.t = "slice" THEN obj
                  ELSE slice(None, obj, None)
    IN  islice(iterable, _slice.start, _slice.stop, _slice.step)

\* ------------------------------------------------------------- cleanupmd
\* a text is the sequence of its characters
NL == "\n"

\* str.replace(old, new): left to right, non-overlapping, one pass
RECURSIVE replace(_, _, _)
replace(s, old, new) ==
    IF Len(s) < Len(old) THEN s
    ELSE IF SubSeq(s, 1, Len(old)) = old
         THEN new \o replace(SubSeq(s, Len(old) + 1, Len(s)), old, new)
         ELSE <<s[1]>> \o replace(Tail(s), old, new)

\* position of the first newline of s, 0 when there is none
RECURSIVE FirstNL(_, _)
FirstNL(s, i) ==
    IF i > Len(s) THEN 0 ELSE IF s[i] = NL THEN i ELSE FirstNL(s, i + 1)

\* str.splitlines(): no empty last line after a final newline
RECURSIVE splitlines(_)
splitlines(s) ==
    IF s = <<>> THEN <<>>
    ELSE LET p == FirstNL(s, 1)
         IN  IF p = 0 THEN <<s>>
             ELSE <<SubSeq(s, 1, p - 1)>> \o splitlines(SubSeq(s, p + 1, Len(s)))

startswith(l, prefix) ==
    Len(l) >= Len(prefix) /\ SubSeq(l, 1, Len(prefix)) = prefix

\* '\n'.join(lines)
RECURSIVE join(_)
join(lines) ==
    IF lines = <<>> THEN <<>>
    ELSE IF Len(lines) = 1 THEN lines[1]
    ELSE lines[1] \o <<NL>> \o join(Tail(lines))

\* the backquote character (the string syntax has no literal for it)
BQ == "BQ"

\* the code-fence marker, three backquotes
Fence == <<BQ, BQ, BQ>>

Comment == <<"<", "!", "-", "-">>

\* the text main() writes back for the text it read
cleanup(text) ==
    LET data == replace(
                    replace(
                        replace(text, Fence \o <<NL, NL, NL>>, Fence \o <<NL, NL>>),
                        <<NL, NL, NL>>, <<NL, NL>>),
                    <<NL, NL, NL>> \o Fence, <<NL, NL>> \o Fence)
        lines == splitlines(data)
        IsKept(l) == ~startswith(l, Comment)
    IN  join(SelectSeq(lines, IsKept))

\* ---------------------------------------------------------------- state
VARIABLES
    objs,     \* objs[v]: the entries of the Dict the variable v holds
    live,     \* the variables that hold a Dict
    iloc,     \* iloc[view]: the instance the IlocIndexer on Dict.<view> reads
    deleted,  \* deleted[v]: keys deleted from objs[v] and not inserted again
    last,     \* the positional read evaluated in the last step, and its result
    file,     \* the contents of the file cleanupmd is run on
    pc        \* cleanupmd: "start" before main(), "done" after

vars == <<objs, live, iloc, deleted, last, file, pc>>

dictVars == <<objs, live, iloc, deleted>>

\* all mappings over Keys: distinct keys, any order, value = key.upper()
Mappings ==
    LET Inj(n) == {f \in [1..n -> Keys] : \A i, j \in 1..n : f[i] = f[j] => i = j}
    IN  {[i \in DOMAIN f |-> <<f[i], upper(f[i])>>] :
            f \in UNION {Inj(n) : n \in 0..MaxLen}}

\* the mappings built like odict: Dict.fromkeys / a comprehension over a
\* string of keys in alphabetical order
fromkeys(S) ==
    LET IsIn(k) == k \in S
        ks == SelectSeq(SubSeq(KeyNames, 1, MaxLen), IsIn)
    IN  [i \in 1..Len(ks) |-> <<ks[i], upper(ks[i])>>]

Literals == {fromkeys(S) : S \in SUBSET Keys}

Ints == {PyInt(n) : n \in -(MaxLen + 1)..(MaxLen + 1)}

Scalars == Ints \cup {None}

Others == {PyStr, PyFloat, PyTuple}

Slices == {slice(a, b, c) : a \in Scalars, b \in Scalars, c \in Scalars}

NoRead ==
    [op |-> "none", mode |-> "none", var |-> "none", view |-> "none",
     a1 |-> None, a2 |-> None, a3 |-> None, res |-> Ok(<<>>)]

Read(op, mode, v, view, a1, a2, a3, res) ==
    [op |-> op, mode |-> mode, var |-> v, view |-> view,
     a1 |-> a1, a2 |-> a2, a3 |-> a3, res |-> res]

\* ----------------------------------------------------------- operations
\* v = Dict(m): dict.__init__ copies m, then the three indexers are
\* (re)attached to the functions of the class, bound to the new instance
Dict__init__(v, m) ==
    /\ objs' = [objs EXCEPT ![v] = m]
    /\ live' = live \cup {v}
    /\ iloc' = [keys |-> v, values |-> v, items |-> v]
    /\ deleted' = [deleted EXCEPT ![v] = {}]
    /\ UNCHANGED <<last, file, pc>>

\* the entries after self[k] = val: in place for a key already present,
\* appended for a new key
setitem(m, k, val) ==
    IF \E i \in 1..Len(m) : m[i][1] = k
    THEN [i \in 1..Len(m) |-> IF m[i][1] = k THEN <<k, val>> ELSE m[i]]
    ELSE Append(m, <<k, val>>)

\* the entries after del self[k]: the others keep their relative order
delitem(m, k) ==
    LET IsOther(e) == e[1] # k IN SelectSeq(m, IsOther)

\* v.__setitem__(k, k.upper())
SetItem(v, k) ==
    /\ v \in live
    /\ objs' = [objs EXCEPT ![v] = setitem(@, k, upper(k))]
    /\ deleted' = [deleted EXCEPT ![v] = @ \ {k}]
    /\ UNCHANGED <<last, live, iloc, file, pc>>

\* del v[k], for a key that is present
DelItem(v, k) ==
    /\ v \in live
    /\ \E i \in 1..Len(objs[v]) : objs[v][i][1] = k
    /\ objs' = [objs EXCEPT ![v] = delitem(@, k)]
    /\ deleted' = [deleted EXCEPT ![v] = @ \cup {k}]
    /\ UNCHANGED <<last, live, iloc, file, pc>>

\* <view>_iloc(self, start, stop, step)
call_iloc(view, self, start, stop, step) ==
    CASE view = "keys" -> keys_iloc(self, start, stop, step)
      [] view = "values" -> values_iloc(self, start, stop, step)
      [] OTHER -> items_iloc(self, start, stop, step)

\* v.<view>.iloc[obj]: the attribute iloc of the bound method v.<view> is the
\* attribute of the function Dict.<view>, whatever instance v holds; the
\* indexer calls the bound method it was built with
attr_iloc(view, obj) ==
    IlocIndexer_getitem(View(objs[iloc[view]], view), obj)

\* A read is one expression: it is evaluated on the current entries and its
\* iterator is consumed at once; last holds the result until it is dropped.
\* The statements of the program run one after the other: the next one
\* starts when the result of the previous one has been dropped.
Idle == last = NoRead

\* next(<view>_iloc(v, start, stop, step))
NextIloc(v, view, start, stop, step) ==
    /\ v \in live
    /\ last' = Read("fn", "next", v, view, start, stop, step,
                    next(call_iloc(view, objs[v], start, stop, step)))
    /\ UNCHANGED <<dictVars, file, pc>>

\* list(<view>_iloc(v, start, stop, step))
ListIloc(v, view, start, stop, step) ==
    /\ v \in live
    /\ last' = Read("fn", "list", v, view, start, stop, step,
                    call_iloc(view, objs[v], start, stop, step))
    /\ UNCHANGED <<dictVars, file, pc>>

\* list(v.<view>.iloc[obj])
GetItem(v, view, obj) ==
    /\ v \in live
    /\ last' = Read("iloc", "list", v, view, obj, None, None, attr_iloc(view, obj))
    /\ UNCHANGED <<dictVars, file, pc>>

\* the first exception of a sequence of results, else the list of their values
Gather(rs) ==
    IF \E i \in 1..Len(rs) : rs[i].kind # "ok"
    THEN LET i == CHOOSE i \in 1..Len(rs) :
                      /\ rs[i].kind # "ok"
                      /\ \A j \in 1..(i - 1) : rs[j].kind = "ok"
         IN  Raise(rs[i].kind)
    ELSE Ok([i \in 1..Len(rs) |-> rs[i].seq])

\* [next(<view>_iloc(v, i)) for i in range(len(v))]
CollectNext(v, view) ==
    /\ v \in live
    /\ last' = Read("fn", "collect", v, view, None, None, None,
                    Gather([i \in 1..Len(objs[v]) |->
                        next(call_iloc(view, objs[v], PyInt(i - 1), None, None))]))
    /\ UNCHANGED <<dictVars, file, pc>>

\* [list(v.<view>.iloc[i]) for i in range(len(v))]
CollectGetItem(v, view) ==
    /\ v \in live
    /\ last' = Read("iloc", "collect", v, view, None, None, None,
                    Gather([i \in 1..Len(objs[v]) |-> attr_iloc(view, PyInt(i - 1))]))
    /\ UNCHANGED <<dictVars, file, pc>>

\* the result of the read goes out of scope
Drop ==
    /\ last # NoRead
    /\ last' = NoRead
    /\ UNCHANGED <<dictVars, file, pc>>

\* cleanupmd.main(): read the file, clean it up, write it back
main ==
    /\ pc = "start"
    /\ file' = cleanup(file)
    /\ pc' = "done"
    /\ UNCHANGED <<dictVars, last>>

\* ------------------------------------------------------- specifications
\* Spec: Dict instances in two variables, mutated and read by position
Init ==
    /\ objs = [v \in Names |-> <<>>]
    /\ live = {}
    /\ iloc = [keys |-> "none", values |-> "none", items |-> "none"]
    /\ deleted = [v \in Names |-> {}]
    /\ last = NoRead
    /\ file = <<>>
    /\ pc = "done"

\* the positions a mapping of at most MaxLen entries can have
Positions == {PyInt(n) : n \in 0..(MaxLen - 1)}

Next ==
    \/ Idle /\ \E v \in Names, m \in Literals : Dict__init__(v, m)
    \/ Idle /\ \E v \in Names, k \in Keys : SetItem(v, k)
    \/ Idle /\ \E v \in Names, k \in Keys : DelItem(v, k)
    \/ Idle /\ \E v \in Names, view \in Views, i \in Positions :
                   NextIloc(v, view, i, None, None)
    \/ Idle /\ \E v \in Names, view \in Views, i \in Positions :
                   GetItem(v, view, i)
    \/ Idle /\ \E v \in Names, view \in Views : CollectNext(v, view)
    \/ Idle /\ \E v \in Names, view \in Views : CollectGetItem(v, view)
    \/ Drop

Spec == Init /\ [][Next]_vars

\* SpecSel: one Dict d = Dict(m), read with every kind of selector
InitSel ==
    /\ \E m \in Mappings : objs = [v \in Names |-> IF v = "d" THEN m ELSE <<>>]
    /\ live = {"d"}
    /\ iloc = [keys |-> "d", values |-> "d", items |-> "d"]
    /\ deleted = [v \in Names |-> {}]
    /\ last = NoRead
    /\ file = <<>>
    /\ pc = "done"

NextSel ==
    \/ Idle /\ \E view \in Views, a \in Scalars, b \in Scalars, c \in Scalars :
                   ListIloc("d", view, a, b, c)
    \/ Idle /\ \E view \in Views, s \in Slices \cup Others :
                   ListIloc("d", view, s, None, None)
    \/ Idle /\ \E view \in Views, a \in Ints \cup Others :
                   NextIloc("d", view, a, None, None)
    \/ Idle /\ \E view \in Views, obj \in Scalars \cup Others \cup Slices :
                   GetItem("d", view, obj)
    \/ Drop

SpecSel == InitSel /\ [][NextSel]_vars

\* SpecMd: cleanupmd.main() run once on a file
Pieces == {<<NL>>, <<"x">>, Fence, Comment}

RECURSIVE TextsUpTo(_)
TextsUpTo(n) ==
    IF n = 0 THEN {<<>>}
    ELSE LET T == TextsUpTo(n - 1) IN T \cup {t \o p : t \in T, p \in Pieces}

Texts == TextsUpTo(MaxPieces)

InitMd ==
    /\ objs = [v \in Names |-> <<>>]
    /\ live = {}
    /\ iloc = [keys |-> "none", values |-> "none", items |-> "none"]
    /\ deleted = [v \in Names |-> {}]
    /\ last = NoRead
    /\ file \in Texts
    /\ pc = "start"

NextMd == main

SpecMd == InitMd /\ [][NextMd]_vars

\* ------------------------------------------------------------ properties
\* the sequence the view of the instance in v iterates over now
Cur(v, view) == View(objs[v], view)

\* v holds the most recently constructed Dict
Newest(v, view) == iloc[view] = v

\* the last step looked up one integer position n
SingleFn == last.op = "fn" /\ last.a1.t = "int" /\ last.a2 = None /\ last.a3 = None

SingleGetItem == last.op = "iloc" /\ last.mode = "list" /\ last.a1.t = "int"

Single == SingleFn \/ SingleGetItem

\* the last step was a range lookup: start, stop and step, each None or an int
RangeRead ==
    \/ last.op \in {"fn", "iloc"} /\ last.a1.t = "slice"
    \/ last.op = "fn" /\ last.mode = "list" /\ last.a1.t \in {"int", "None"}

RangeOf ==
    IF last.a1.t = "slice" THEN last.a1 ELSE slice(last.a1, last.a2, last.a3)

\* the entry of key k in a view
EntryOf(k, view) ==
    CASE view = "keys" -> k
      [] view = "values" -> upper(k)
      [] OTHER -> <<k, upper(k)>>

\* seq[start:stop:step] of Python sequences, for step # 0
PySlice(seq, start, stop, step) ==
    LET n == Len(seq)
        st == IF step.t = "None" THEN 1 ELSE step.n
        Clamp(x, lo, hi) == IF x < lo THEN lo ELSE IF x > hi THEN hi ELSE x
        Norm(x) == IF x < 0 THEN x + n ELSE x
        lo0 == IF st > 0 THEN 0 ELSE -1
        hi0 == IF st > 0 THEN n ELSE n - 1
        first == IF start.t = "None" THEN (IF st > 0 THEN 0 ELSE n - 1)
                 ELSE Clamp(Norm(start.n), lo0, hi0)
        bound == IF stop.t = "None" THEN (IF st > 0 THEN n ELSE -1)
                 ELSE Clamp(Norm(stop.n), lo0, hi0)
        cnt == IF st > 0
               THEN (IF first >= bound THEN 0 ELSE ((bound - first - 1) \div st) + 1)
               ELSE (IF first <= bound THEN 0 ELSE ((first - bound - 1) \div (-st)) + 1)
    IN  [j \in 1..cnt |-> seq[first + (j - 1) * st + 1]]

\* C1: round trip -- collecting the single-position lookups at 0..len(m)-1
\* gives exactly the keys (values, pairs) of m in order, one element per
\* position: through next(<view>_iloc(m, i)), and through Dict(m).<view>.iloc[i]
\* on the instance just constructed.
C1_RoundTrip ==
    /\ (last.op = "fn" /\ last.mode = "collect")
           => last.res = Ok([i \in 1..Len(objs[last.var]) |->
                                <<Cur(last.var, last.view)[i]>>])
    /\ (last.op = "iloc" /\ last.mode = "collect" /\ Newest(last.var, last.view))
           => last.res = Ok([i \in 1..Len(objs[last.var]) |->
                                <<Cur(last.var, last.view)[i]>>])

C1_Witness ==
    /\ last.op = "iloc" /\ last.mode = "collect" /\ last.view = "items"
    /\ Newest(last.var, last.view)
    /\ Len(objs[last.var]) >= 2
    /\ Len(last.res.seq) = Len(objs[last.var])

\* C2: a range lookup with a nonzero step yields list(view)[start:stop:step],
\* for omitted, negative and out-of-range start, stop and step.
C2_SliceSemantics ==
    (RangeRead /\ RangeOf.step # PyInt(0))
        => last.res = Ok(PySlice(Cur(last.var, last.view),
                                 RangeOf.start, RangeOf.stop, RangeOf.step))

\* C3: a positional read after insertions and deletions returns the entry
\* now at that position of the mapping, and never the entry of a key that
\* was deleted and not inserted again (for Dict.<view>.iloc: on the
\* instance the mutations were applied to since it was constructed).
C3_NeverStale ==
    (/\ Single
     /\ last.a1.n >= 0 /\ last.a1.n < Len(objs[last.var])
     /\ SingleGetItem => Newest(last.var, last.view))
        => /\ last.res = Ok(<<Cur(last.var, last.view)[last.a1.n + 1]>>)
           /\ \A k \in deleted[last.var] :
                  last.res.seq # <<EntryOf(k, last.view)>>

C3_Witness ==
    /\ SingleGetItem /\ Newest(last.var, last.view) /\ last.view = "keys"
    /\ deleted[last.var] = {"b"}
    /\ last.a1.n = 1
    /\ last.res = Ok(<<"c">>)

\* C4: a single-position lookup at a negative index i, -n <= i < 0, returns
\* the entry at position n + i.
C4_NegativeIndex ==
    (/\ Single
     /\ last.a1.n < 0 /\ last.a1.n >= -Len(objs[last.var]))
        => last.res = Ok(<<Cur(last.var, last.view)
                               [Len(objs[last.var]) + last.a1.n + 1]>>)

\* C5: a single-position lookup at an index outside [-size, size) fails with
\* an IndexError.
C5_IndexError ==
    (/\ Single
     /\ (last.a1.n < -Len(objs[last.var]) \/ last.a1.n >= Len(objs[last.var])))
        => last.res.kind = "IndexError"

\* C6: fully consumed, a lookup with the single integer i, 0 <= i < len(m),
\* yields exactly one element, the same sequence as the range lookup
\* with start = i, stop = i + 1, step = 1.
C6_SingleIsRange ==
    (/\ Single /\ last.mode = "list"
     /\ last.a1.n >= 0 /\ last.a1.n < Len(objs[last.var]))
        => /\ Len(last.res.seq) = 1
           /\ last.res = islice(Cur(last.var, last.view),
                                last.a1, PyInt(last.a1.n + 1), PyInt(1))

\* C7: a range lookup with step 0 fails with a ValueError and yields no
\* element, whatever the mapping, start and stop.
C7_ZeroStep ==
    (RangeRead /\ RangeOf.step = PyInt(0)) => last.res = Raise("ValueError")

C7_Witness ==
    /\ RangeRead /\ RangeOf.step = PyInt(0)
    /\ RangeOf.start = PyInt(0) /\ RangeOf.stop = PyInt(1)
    /\ objs[last.var] # <<>>
    /\ last.res.kind = "ValueError"

\* C8: a lookup whose selector is neither an integer nor a slice fails with
\* a TypeError.
C8_TypeError ==
    (\/ last.op \in {"fn", "iloc"} /\ last.a1 \in Others
     \/ last.op = "iloc" /\ last.mode = "list" /\ last.a1 = None)
        => last.res.kind = "TypeError"

\* C9: v.<view>.iloc[i] returns the i-th entry of the instance v holds,
\* whichever other Dict instances were constructed before or after it.
C9_OwnInstance ==
    (/\ SingleGetItem
     /\ last.a1.n >= 0 /\ last.a1.n < Len(objs[last.var]))
        => last.res = Ok(<<Cur(last.var, last.view)[last.a1.n + 1]>>)

\* C10: the text main() writes back has no run of three or more newlines.
C10_NoBlankRuns ==
    pc = "done" =>
        ~\E i \in 1..(Len(file) - 2) :
            file[i] = NL /\ file[i + 1] = NL /\ file[i + 2] = NL

====
